---- MODULE Spec2Model ----
(***************************************************************************)
(* UnorderedBufferSet (src/src/unordered_buffer_set.cc): a set of          *)
(* newline-separated tokens kept as (start, length) views into one owned   *)
(* copy of the corpus, with exact membership (contains) and n-gram         *)
(* matching over a space-delimited query (findAllMatches), and the three   *)
(* script-facing entry points New, Contains and FindAllMatches.            *)
(*                                                                         *)
(* Bytes are numbers 0..255, text values are sequences of code points,     *)
(* pointers are offsets into the buffer they point into.                   *)
(***************************************************************************)
EXTENDS Integers, Sequences, FiniteSets

VARIABLES
  corpusArg,     \* args[0] of New
  queryArg,      \* args[0] of Contains / FindAllMatches
  ngramArg,      \* args[1]->Uint32Value() of FindAllMatches
  state,         \* "init" (no object yet), "ready" (constructed), "aborted"
  mem,           \* UnorderedBufferSet::mem, the owned copy of the corpus
  set,           \* UnorderedBufferSet::set, PooledString views into mem
  op,            \* the entry point that ran last
  retBool,       \* the value Contains returned last
  ret,           \* the vector findAllMatches returned last (views into the query)
  retArray,      \* the array FindAllMatches returned last (one text per view)
  iters,         \* per loop iteration of the last findAllMatches: starts held, end position
  firstContains, \* the value the first Contains call returned
  firstFind,     \* the array the first FindAllMatches call returned
  repeated       \* the entry points called more than once on the object so far

vars == <<corpusArg, queryArg, ngramArg, state, mem, set, op, retBool, ret,
          retArray, iters, firstContains, firstFind, repeated>>

---------------------------------------------------------------------------
(* Bounds of the explored inputs *)

MaxCorpusLen == 3
MaxQueryLen == 3
MaxTextLen == 2
MaxNgram == 2

(* The two delimiter bytes of the program *)
NL == 10
SP == 32

CorpusBytes == {97, SP, NL}
QueryBytes == {97, 65, SP}
TextChars == {97, 233, SP}

SeqsUpTo(S, n) == UNION {[1..k -> S] : k \in 0..n}

Buffer(bytes) == [kind |-> "buffer", data |-> bytes]
Text(chars) == [kind |-> "string", data |-> chars]
Unconvertible == [kind |-> "other", data |-> <<>>]

---------------------------------------------------------------------------
(* Argument marshalling *)

HasInstance(arg) == arg.kind = "buffer"

(* one code point as String::Utf8Value writes it: 1 to 4 bytes; a lone
   surrogate (55296..57343) is written in the 3-byte form of its own value,
   not replaced *)
Utf8EncodeChar(c) ==
  IF c < 128 THEN <<c>>
  ELSE IF c < 2048 THEN <<192 + (c \div 64), 128 + (c % 64)>>
  ELSE IF c < 65536
    THEN <<224 + (c \div 4096), 128 + ((c \div 64) % 64), 128 + (c % 64)>>
  ELSE <<240 + (c \div 262144), 128 + ((c \div 4096) % 64),
         128 + ((c \div 64) % 64), 128 + (c % 64)>>

RECURSIVE Utf8Encode(_)
Utf8Encode(chars) ==
  IF chars = <<>> THEN <<>>
  ELSE Utf8EncodeChar(Head(chars)) \o Utf8Encode(Tail(chars))

(* String::Utf8Value: the UTF-8 bytes of a text value; when the value cannot
   be converted the data pointer is NULL and the length 0. *)
Utf8Value(arg) == IF arg.kind = "string" THEN Utf8Encode(arg.data) ELSE <<>>

(* UTF-8 decoding as String::NewFromUtf8 does it: the number of continuation
   bytes a lead byte asks for (0 for a byte that cannot lead: 128..193 and
   245..255, which covers the overlong leads 192 and 193) *)
Utf8Need(b) ==
  IF b >= 194 /\ b < 224 THEN 1
  ELSE IF b >= 224 /\ b < 240 THEN 2
  ELSE IF b >= 240 /\ b < 245 THEN 3
  ELSE 0

(* the range of the byte after the lead: narrower after 224 and 240 (overlong
   forms), after 237 (surrogates) and after 244 (beyond U+10FFFF) *)
Utf8Lo2(b) == IF b = 224 THEN 160 ELSE IF b = 240 THEN 144 ELSE 128
Utf8Hi2(b) == IF b = 237 THEN 159 ELSE IF b = 244 THEN 143 ELSE 191

Utf8IsCont(bytes, k) ==
  /\ Len(bytes) >= k
  /\ bytes[k] >= (IF k = 2 THEN Utf8Lo2(bytes[1]) ELSE 128)
  /\ bytes[k] <= (IF k = 2 THEN Utf8Hi2(bytes[1]) ELSE 191)

(* how many of the continuation bytes asked for are there *)
Utf8Got(bytes) ==
  LET need == Utf8Need(bytes[1]) IN
  IF need >= 1 /\ Utf8IsCont(bytes, 2)
    THEN IF need >= 2 /\ Utf8IsCont(bytes, 3)
           THEN IF need >= 3 /\ Utf8IsCont(bytes, 4) THEN 3 ELSE 2
           ELSE 1
    ELSE 0

Utf8CodePoint(bytes, need) ==
  IF need = 1 THEN (bytes[1] - 192) * 64 + (bytes[2] - 128)
  ELSE IF need = 2
    THEN (bytes[1] - 224) * 4096 + (bytes[2] - 128) * 64 + (bytes[3] - 128)
  ELSE (bytes[1] - 240) * 262144 + (bytes[2] - 128) * 4096
         + (bytes[3] - 128) * 64 + (bytes[4] - 128)

(* String::NewFromUtf8 on a span of bytes: each well-formed sequence gives its
   code point, each ill-formed maximal part gives one U+FFFD *)
RECURSIVE NewFromUtf8(_)
NewFromUtf8(bytes) ==
  IF bytes = <<>> THEN <<>>
  ELSE LET b == Head(bytes)
           need == Utf8Need(b)
           got == Utf8Got(bytes)
       IN IF b < 128 THEN <<b>> \o NewFromUtf8(Tail(bytes))
          ELSE IF need >= 1 /\ got = need
            THEN <<Utf8CodePoint(bytes, need)>>
                   \o NewFromUtf8(SubSeq(bytes, need + 2, Len(bytes)))
          ELSE <<65533>> \o NewFromUtf8(SubSeq(bytes, got + 2, Len(bytes)))

CoerceKeep(n) == n

CoerceNgram(n) == IF n = 0 THEN 1 ELSE n

---------------------------------------------------------------------------
(* PooledString *)

PooledString(s, l) == [start |-> s, length |-> l]

(* the bytes a view covers in its backing buffer *)
Content(buf, ps) ==
  [i \in 1..ps.length |->
     IF ps.start + i \in 1..Len(buf) THEN buf[ps.start + i] ELSE 0]

(* PooledString::operator== of a view into bufA and a view into bufB *)
Equals(bufA, a, bufB, b) ==
  /\ b.length = a.length
  /\ Content(bufA, a) = Content(bufB, b)

(* unordered_set::insert of a view into the set's own buffer *)
SetInsert(buf, S, ps) ==
  IF \E e \in S : Equals(buf, e, buf, ps) THEN S ELSE S \cup {ps}

(* unordered_set::count of a view into buf *)
SetCount(obj, buf, needle) ==
  Cardinality({e \in obj.set : Equals(obj.mem, e, buf, needle)})

LookupInserting(obj, buf, needle) ==
  [count |-> SetCount(obj, buf, needle),
   obj |-> [obj EXCEPT !.set = @ \cup {needle}]]

(* this->set.count(needle): the count, and the object after the call *)
Lookup(obj, buf, needle) ==
  [count |-> SetCount(obj, buf, needle), obj |-> obj]

---------------------------------------------------------------------------
(* UnorderedBufferSet::UnorderedBufferSet *)

TrailingAlways(tokenStart, end) == tokenStart <= end

TrailingPresent(tokenStart, end) == tokenStart < end

RECURSIVE SplitLoop(_,_,_,_)
SplitLoop(buf, p, tokenStart, S) ==
  IF p >= Len(buf) THEN [set |-> S, tokenStart |-> tokenStart]
  ELSE IF buf[p + 1] = NL
    THEN SplitLoop(buf, p + 1, p + 1,
                   SetInsert(buf, S, PooledString(tokenStart, p - tokenStart)))
    ELSE SplitLoop(buf, p + 1, tokenStart, S)

Construct(s) ==
  LET r == SplitLoop(s, 0, 0, {})
      end == Len(s)
  IN [mem |-> s,
      set |-> IF TrailingPresent(r.tokenStart, end)
                THEN SetInsert(s, r.set, PooledString(r.tokenStart, end - r.tokenStart))
                ELSE r.set]

(* UnorderedBufferSet::contains *)
contains(obj, s) ==
  LET r == Lookup(obj, s, PooledString(0, Len(s)))
  IN [ret |-> r.count # 0, obj |-> r.obj]

---------------------------------------------------------------------------
(* UnorderedBufferSet::findAllMatches *)

(* memchr(s + from, ch, len - from); Len(s) stands for NULL replaced by s + len *)
RECURSIVE memchr(_,_,_)
memchr(s, from, ch) ==
  IF from >= Len(s) THEN Len(s)
  ELSE IF s[from + 1] = ch THEN from
  ELSE memchr(s, from + 1, ch)

PushFront(dq, x) == <<x>> \o dq

PushBack(dq, x) == Append(dq, x)

EvictLate(size, maxNgramSize) == size = maxNgramSize + 1

EvictEarly(size, maxNgramSize) == size + 1 >= maxNgramSize

Evict(size, maxNgramSize) == size = maxNgramSize

NextStartSkip(p) == p + 2

NextStart(p) == p + 1

RECURSIVE testStarts(_,_,_,_,_,_)
testStarts(obj, s, p, tokenStarts, i, out) ==
  IF i > Len(tokenStarts) THEN [obj |-> obj, ret |-> out]
  ELSE LET tokenStart == tokenStarts[i]
           needle == PooledString(tokenStart, p - tokenStart)
           r == Lookup(obj, s, needle)
       IN testStarts(r.obj, s, p, tokenStarts, i + 1,
                     IF r.count # 0 THEN Append(out, needle) ELSE out)

RECURSIVE findLoop(_,_,_,_,_,_,_)
findLoop(obj, s, maxNgramSize, lastP, tokenStarts, out, trace) ==
  LET p == memchr(s, lastP, SP)
      t == testStarts(obj, s, p, tokenStarts, 1, out)
      kept == IF Evict(Len(tokenStarts), maxNgramSize)
                THEN Tail(tokenStarts) ELSE tokenStarts
      trace2 == Append(trace, [tokenStarts |-> tokenStarts, p |-> p])
  IN IF p >= Len(s)
       THEN [ret |-> t.ret, obj |-> t.obj, iters |-> trace2]
       ELSE findLoop(t.obj, s, maxNgramSize, NextStart(p),
                     PushBack(kept, NextStart(p)), t.ret, trace2)

findAllMatchesSkipEmpty(obj, s, maxNgramSize) ==
  IF Len(s) = 0 THEN [ret |-> <<>>, obj |-> obj, iters |-> <<>>]
  ELSE findLoop(obj, s, maxNgramSize, 0, <<0>>, <<>>, <<>>)

findAllMatches(obj, s, maxNgramSize) ==
  findLoop(obj, s, maxNgramSize, 0, <<0>>, <<>>, <<>>)

---------------------------------------------------------------------------
(* The script-facing entry points *)

Values(bytes, n) ==
  {Buffer(b) : b \in SeqsUpTo(bytes, n)}
    \cup {Text(c) : c \in SeqsUpTo(TextChars, MaxTextLen)}
    \cup {Unconvertible}

Init ==
  /\ corpusArg \in Values(CorpusBytes, MaxCorpusLen)
  /\ queryArg \in Values(QueryBytes, MaxQueryLen)
  /\ ngramArg \in 0..MaxNgram
  /\ state = "init"
  /\ mem = <<>>
  /\ set = {}
  /\ op = "none"
  /\ retBool = FALSE
  /\ ret = <<>>
  /\ retArray = <<>>
  /\ iters = <<>>
  /\ firstContains = <<>>
  /\ firstFind = <<>>
  /\ repeated = {}

(* UnorderedBufferSet::New, as a construct call. node::Buffer::Data and
   node::Buffer::Length are applied to args[0] unconditionally; on a value
   that is not a Buffer node's own check ends the process. *)
New ==
  /\ state = "init"
  /\ IF HasInstance(corpusArg)
       THEN LET obj == Construct(corpusArg.data)
            IN /\ mem' = obj.mem
               /\ set' = obj.set
               /\ state' = "ready"
       ELSE /\ state' = "aborted"
            /\ UNCHANGED <<mem, set>>
  /\ op' = "New"
  /\ UNCHANGED <<corpusArg, queryArg, ngramArg, retBool, ret, retArray, iters,
                 firstContains, firstFind, repeated>>

(* the bytes Contains and FindAllMatches hand to the object *)
ArgBytes(arg) == IF HasInstance(arg) THEN arg.data ELSE Utf8Value(arg)

(* UnorderedBufferSet::Contains *)
Contains ==
  /\ state = "ready"
  /\ LET r == contains([mem |-> mem, set |-> set], ArgBytes(queryArg))
     IN /\ retBool' = r.ret
        /\ mem' = r.obj.mem
        /\ set' = r.obj.set
        /\ firstContains' = IF firstContains = <<>> THEN <<r.ret>> ELSE firstContains
  /\ repeated' = IF firstContains = <<>> THEN repeated ELSE repeated \cup {"Contains"}
  /\ op' = "Contains"
  /\ UNCHANGED <<corpusArg, queryArg, ngramArg, state, ret, retArray, iters, firstFind>>

(* UnorderedBufferSet::FindAllMatches *)
FindAllMatches ==
  /\ state = "ready"
  /\ LET maxNgramSize == CoerceNgram(ngramArg)
         s == ArgBytes(queryArg)
         r == findAllMatches([mem |-> mem, set |-> set], s, maxNgramSize)
         arr == [i \in 1..Len(r.ret) |-> NewFromUtf8(Content(s, r.ret[i]))]
     IN /\ ret' = r.ret
        /\ retArray' = arr
        /\ iters' = r.iters
        /\ mem' = r.obj.mem
        /\ set' = r.obj.set
        /\ firstFind' = IF firstFind = <<>> THEN <<arr>> ELSE firstFind
  /\ repeated' = IF firstFind = <<>> THEN repeated ELSE repeated \cup {"FindAllMatches"}
  /\ op' = "FindAllMatches"
  /\ UNCHANGED <<corpusArg, queryArg, ngramArg, state, retBool, firstContains>>

Next == New \/ Contains \/ FindAllMatches

Spec == Init /\ [][Next]_vars

---------------------------------------------------------------------------
(* Vocabulary of the properties *)

(* the bytes of the corpus and of the query *)
corpus == corpusArg.data
query == ArgBytes(queryArg)

(* the byte at offset i of a buffer *)
At(buf, i) == buf[i + 1]

NoByteIn(buf, b, S, P) == \A i \in S..(P - 1) : At(buf, i) # b

Span(buf, S, P) == [i \in 1..(P - S) |-> At(buf, S + i - 1)]

(* The lines of a corpus: every run between newlines that a newline ends,
   and the run after the last newline when it is not empty. *)
Lines(c) ==
  {Span(c, S, P) : <<S, P>> \in
     {sp \in (0..Len(c)) \X (0..Len(c)) :
        /\ sp[1] <= sp[2]
        /\ sp[1] = 0 \/ At(c, sp[1] - 1) = NL
        /\ NoByteIn(c, NL, sp[1], sp[2])
        /\ \/ sp[2] < Len(c) /\ At(c, sp[2]) = NL
           \/ sp[2] = Len(c) /\ sp[1] < Len(c)}}

IsTokenStart(q, S) == S = 0 \/ (S >= 1 /\ At(q, S - 1) = SP)
IsTokenEnd(q, P) == P = Len(q) \/ (P < Len(q) /\ At(q, P) = SP)
Spaces(q, S, P) == Cardinality({i \in S..(P - 1) : At(q, i) = SP})
TokenCount(q, S, P) == Spaces(q, S, P) + 1
Occurrences(r, v) == Cardinality({i \in 1..Len(r) : r[i] = v})
EndOf(v) == v.start + v.length

---------------------------------------------------------------------------
(* C1: after construction, Contains(s) is true exactly when s is, byte for
   byte, one of the lines of the corpus: empty lines before a newline count,
   the segment after the last newline counts only when it is not empty, and
   equal lines are one entry. *)
C1_ContainsIffLine ==
  /\ state = "ready" =>
       /\ {Content(mem, e) : e \in set} = Lines(corpus)
       /\ Cardinality(set) = Cardinality(Lines(corpus))
  /\ op = "Contains" => (retBool <=> query \in Lines(corpus))

C1_Witness ==
  /\ op = "Contains"
  /\ retBool
  /\ query = <<>>
  /\ Len(corpus) >= 3
  /\ At(corpus, Len(corpus) - 1) = NL
  /\ Cardinality(set) = 2

(* C2: FindAllMatches with maxNgramSize >= 1 is complete and keeps
   duplicates: every window (S, P) from a token start to a token end that
   spans at most maxNgramSize tokens and spells a dictionary entry is in the
   result exactly once. *)
C2_Complete ==
  (op = "FindAllMatches" /\ ngramArg >= 1) =>
    \A S \in 0..Len(query) : \A P \in S..Len(query) :
      ( /\ IsTokenStart(query, S)
        /\ IsTokenEnd(query, P)
        /\ TokenCount(query, S, P) <= ngramArg
        /\ Span(query, S, P) \in Lines(corpus) )
      => Occurrences(ret, PooledString(S, P - S)) = 1

C2_Witness ==
  /\ op = "FindAllMatches"
  /\ ngramArg = 2
  /\ \E i, j \in 1..Len(ret) :
       /\ i # j
       /\ Content(query, ret[i]) = Content(query, ret[j])
       /\ ret[i].length > 0
  /\ \E k \in 1..Len(ret) : Spaces(query, ret[k].start, EndOf(ret[k])) = 1

(* C3: every element FindAllMatches returns, maxNgramSize >= 1, is a window
   from a token start to a token end inside the query, spells a dictionary
   entry and holds at most maxNgramSize - 1 spaces. *)
C3_Sound ==
  (op = "FindAllMatches" /\ ngramArg >= 1) =>
    \A i \in 1..Len(ret) :
      LET S == ret[i].start
          P == EndOf(ret[i])
      IN /\ 0 <= S /\ S <= P /\ P <= Len(query)
         /\ IsTokenStart(query, S)
         /\ IsTokenEnd(query, P)
         /\ Span(query, S, P) \in Lines(corpus)
         /\ Spaces(query, S, P) <= ngramArg - 1
         /\ retArray[i] = NewFromUtf8(Span(query, S, P))

C3_Witness ==
  /\ op = "FindAllMatches"
  /\ ngramArg >= 1
  /\ query \in Lines(corpus)
  /\ TokenCount(query, 0, Len(query)) = ngramArg + 1
  /\ Len(ret) > 0

(* C4: the result is in discovery order: end positions never decrease, and
   among windows with the same end the start offsets strictly increase; with
   a window of one token the starts strictly increase throughout. *)
C4_Order ==
  op = "FindAllMatches" =>
    \A i, j \in 1..Len(ret) :
      i < j =>
        /\ EndOf(ret[i]) <= EndOf(ret[j])
        /\ EndOf(ret[i]) = EndOf(ret[j]) => ret[i].start < ret[j].start
        /\ ngramArg <= 1 => ret[i].start < ret[j].start

C4_Witness ==
  /\ op = "FindAllMatches"
  /\ \E i, j \in 1..Len(ret) :
       /\ i < j
       /\ EndOf(ret[i]) = EndOf(ret[j])
       /\ ret[i].length > ret[j].length
  /\ \E i, j \in 1..Len(ret) : EndOf(ret[i]) < EndOf(ret[j])

(* C5: FindAllMatches(query, 0) returns what FindAllMatches(query, 1)
   returns, and so only windows of one token. *)
C5_ZeroIsOne ==
  (op = "FindAllMatches" /\ ngramArg = 0) =>
    LET one == findAllMatches([mem |-> mem, set |-> set], query, 1).ret
    IN /\ ret = one
       /\ retArray = [i \in 1..Len(one) |-> NewFromUtf8(Content(query, one[i]))]
       /\ \A i \in 1..Len(ret) : Spaces(query, ret[i].start, EndOf(ret[i])) = 0

C5_Witness ==
  /\ op = "FindAllMatches"
  /\ ngramArg = 0
  /\ Len(ret) > 0
  /\ query \in Lines(corpus)
  /\ TokenCount(query, 0, Len(query)) > 1

(* C6: when the whole query is a dictionary entry, Contains is true and
   FindAllMatches with maxNgramSize = the query's token count returns the
   window covering the whole query. *)
C6_WholeQuery ==
  (state = "ready" /\ query \in Lines(corpus)) =>
    /\ op = "Contains" => retBool
    /\ (op = "FindAllMatches" /\ ngramArg = TokenCount(query, 0, Len(query)))
         => Occurrences(ret, PooledString(0, Len(query))) >= 1

C6_Witness ==
  /\ op = "FindAllMatches"
  /\ firstContains = <<TRUE>>
  /\ query \in Lines(corpus)
  /\ ngramArg = 2
  /\ TokenCount(query, 0, Len(query)) = 2
  /\ Occurrences(ret, PooledString(0, Len(query))) = 1

(* C7: no call on a constructed object changes the corpus copy or the entry
   set, and a call repeated with the same arguments returns what its first
   call returned. *)
C7_Immutable ==
  [][state = "ready" =>
       /\ mem' = mem
       /\ set' = set
       /\ (op' = "Contains" /\ firstContains # <<>>) => <<retBool'>> = firstContains
       /\ (op' = "FindAllMatches" /\ firstFind # <<>>) => <<retArray'>> = firstFind
    ]_vars

C7_Witness ==
  /\ repeated = {"Contains", "FindAllMatches"}
  /\ op = "FindAllMatches"
  /\ Len(ret) > 1
  /\ retBool

(* C8 as stated: a haystack that cannot be converted to UTF-8 makes
   FindAllMatches return the empty sequence, whatever the dictionary. *)
C8_UnconvertibleGivesNothing ==
  (op = "FindAllMatches" /\ queryArg.kind = "other") => retArray = <<>>

(* C8 amended: a haystack that cannot be converted to UTF-8 is searched as
   the empty query: the result is empty when the dictionary has no empty
   entry and is the single empty text when it has one. *)
C8_UnconvertibleIsEmptyQuery ==
  (op = "FindAllMatches" /\ queryArg.kind = "other") =>
    /\ query = <<>>
    /\ retArray = IF <<>> \in Lines(corpus) THEN << <<>> >> ELSE <<>>
    /\ ret = IF <<>> \in Lines(corpus) THEN <<PooledString(0, 0)>> ELSE <<>>

C8_Witness ==
  /\ op = "FindAllMatches"
  /\ queryArg.kind = "other"
  /\ retArray = << <<>> >>

(* C9: New on a text value builds the dictionary of the text's UTF-8 bytes,
   and the dictionary of the empty corpus when the value cannot be
   converted; it never ends in an error. *)
C9_ConstructFromText ==
  (state # "init" /\ ~HasInstance(corpusArg)) =>
    /\ state = "ready"
    /\ [mem |-> mem, set |-> set] = Construct(Utf8Value(corpusArg))

(* C10: every entry of the set lies inside the corpus copy, and in every
   iteration of findAllMatches every pending start S and the end position P
   satisfy 0 <= S <= P <= |query|. *)
C10_ViewsInBounds ==
  /\ \A e \in set :
       /\ 0 <= e.start
       /\ 0 <= e.length
       /\ e.start + e.length <= Len(mem)
  /\ op = "FindAllMatches" =>
       /\ Len(iters) = Spaces(query, 0, Len(query)) + 1
       /\ \A k \in 1..Len(iters) :
            /\ iters[k].p <= Len(query)
            /\ Len(iters[k].tokenStarts) >= 1
            /\ \A i \in 1..Len(iters[k].tokenStarts) :
                 /\ 0 <= iters[k].tokenStarts[i]
                 /\ iters[k].tokenStarts[i] <= iters[k].p

C10_Witness ==
  /\ op = "FindAllMatches"
  /\ Len(iters) >= 3
  /\ LET last == iters[Len(iters)]
     IN /\ last.p = Len(query)
        /\ last.tokenStarts[Len(last.tokenStarts)] = Len(query)
        /\ Len(last.tokenStarts) = 2
  /\ Cardinality(set) = 2

====
